---- MODULE Spec2Model ----
(***************************************************************************)
(* Pricing calculator (src/components/Calculator.tsx and the earlier       *)
(* total-only page kept next to it).  A static schema (ccb.json) is        *)
(* rendered as a form; selections are kept in three React state records    *)
(* (dropdownValues, dropdownLabels, checked); the running total and the    *)
(* line items of the exported quote are derived from them.                 *)
(*                                                                         *)
(* Representation.                                                         *)
(*  - alias, label and optionText are TLA+ strings; template literals are  *)
(*    string concatenation (\o).                                           *)
(*  - optionValue and the raw value of a <select> are tuples of characters *)
(*    so that Number() can be computed digit by digit.                     *)
(*  - an optional property that is absent is a record without that field.  *)
(*  - a JavaScript number is [nan |-> BOOLEAN, n |-> Int]; amounts are     *)
(*    whole numbers (no fractions, no exponent, no surrounding blanks).    *)
(***************************************************************************)
EXTENDS Integers, Sequences, FiniteSets, TLC

VARIABLES
    ccbRoot,          \* the static configuration (ccb.json)
    dropdownValues,   \* useState: alias -> number
    dropdownLabels,   \* useState: alias -> optionText
    checked,          \* useState: `${alias}:${optionText}` -> boolean
    selectedIndex,    \* DOM: field position -> index shown by its <select>
    lastSel,          \* history: alias -> the latest selection made on it
    lastEvent,        \* history: the event handled last
    output,           \* what the handler of lastEvent showed and saved
    doc               \* the jsPDF document while its table is drawn row by row

vars == <<ccbRoot, dropdownValues, dropdownLabels, checked, selectedIndex,
          lastSel, lastEvent, output, doc>>

-----------------------------------------------------------------------------
(* JavaScript values                                                       *)

Has(r, k) == k \in DOMAIN r

Num(i) == [nan |-> FALSE, n |-> i]

NaN == [nan |-> TRUE, n |-> 0]

\* a + b on numbers: NaN is absorbing
Add(a, b) == IF a.nan \/ b.nan THEN NaN ELSE Num(a.n + b.n)

\* truthiness of a number: 0 and NaN are falsy
Truthy(v) == ~v.nan /\ v.n # 0

\* v || 0
OrZero(v) == IF Truthy(v) THEN v ELSE Num(0)

\* v > 0
Positive(v) == ~v.nan /\ v.n > 0

Digits == <<"0", "1", "2", "3", "4", "5", "6", "7", "8", "9">>

IsDigit(c) == \E d \in 1..10 : Digits[d] = c

DigitVal(c) == (CHOOSE d \in 1..10 : Digits[d] = c) - 1

AllDigits(s) == Len(s) > 0 /\ \A i \in 1..Len(s) : IsDigit(s[i])

RECURSIVE DecVal(_)
DecVal(s) ==
    IF s = <<>> THEN 0
    ELSE 10 * DecVal(SubSeq(s, 1, Len(s) - 1)) + DigitVal(s[Len(s)])

\* Number(s) for a string s: "" is 0, an optionally signed decimal integer
\* is its value, anything else is NaN
Number(s) ==
    IF s = <<>> THEN Num(0)
    ELSE IF AllDigits(s) THEN Num(DecVal(s))
    ELSE IF s[1] = "-" /\ AllDigits(Tail(s)) THEN Num(0 - DecVal(Tail(s)))
    ELSE IF s[1] = "+" /\ AllDigits(Tail(s)) THEN Num(DecVal(Tail(s)))
    ELSE NaN

\* String(o.optionValue)
StringOfValue(o) ==
    IF Has(o, "optionValue") THEN o.optionValue
    ELSE <<"u", "n", "d", "e", "f", "i", "n", "e", "d">>

\* Number(v || 0) for an optional string property of an option
NumberOrZero(o) ==
    IF Has(o, "optionValue") /\ o.optionValue # <<>>
    THEN Number(o.optionValue) ELSE Num(0)

\* toNum(o.optionValue)
toNum(o) == OrZero(NumberOrZero(o))

\* {...s, [k]: v}
Put(s, k, v) == [x \in DOMAIN s \cup {k} |-> IF x = k THEN v ELSE s[x]]

EmptyRecord == [x \in {} |-> FALSE]

-----------------------------------------------------------------------------
(* Schemas                                                                 *)

MaxFields == 2

Opt(text, value) == [optionText |-> text, optionValue |-> value]

FieldPool == {
    [_id |-> 1, type |-> "Drop Down", label |-> "Travel", alias |-> "travel",
     options |-> << Opt("Economy", <<"0">>), Opt("Business", <<"5", "0", "0">>) >>],
    [_id |-> 2, type |-> "Checkbox", label |-> "Extras", alias |-> "insurance",
     options |-> << Opt("Insurance", <<"7", "5">>) >>],
    [_id |-> 3, type |-> "Toggle", label |-> "Addons",
     options |-> << Opt("Insurance", <<"a", "b", "c">>), Opt("Discount", <<"-", "5">>) >>],
    [_id |-> 4, type |-> "Checkbox", label |-> "More",
     options |-> << Opt("Insurance", <<"7", "5">>) >>],
    [_id |-> 5, type |-> "Drop Down", label |-> "Room",
     options |-> << Opt("Standard", <<"5">>), Opt("Deluxe", <<"5">>),
                    Opt("Rebate", <<"-", "5">>) >>],
    [_id |-> 7, type |-> "Line", label |-> ""],
    [_id |-> 9, type |-> "Drop Down", label |-> "Upgrade", alias |-> "drop_5",
     options |-> << Opt("", <<"7">>), [optionText |-> "Mystery"] >> ] }

\* the field sequences of a calculator: no field (and so no _id) twice
FieldSeqs ==
    UNION { { s \in [1..n -> FieldPool] :
                \A i, j \in 1..n : i # j => s[i] # s[j] } : n \in 0..MaxFields }

\* the configurations: a calculator with fields, a calculator without a
\* ccb_fields sequence, an empty list of calculators, no list at all
Roots ==
    { [calculators |-> << [ccb_name |-> "Quote", ccb_fields |-> s] >>] : s \in FieldSeqs }
    \cup { [calculators |-> << [ccb_name |-> "Quote"] >>],
           [calculators |-> << >>],
           [name |-> "ccb"] }

null == [null |-> TRUE]

\* ccbRoot.calculators?.[0] ?? null
calculator ==
    IF Has(ccbRoot, "calculators") /\ Len(ccbRoot.calculators) > 0
    THEN ccbRoot.calculators[1] ELSE null

\* calculator?.ccb_fields, as the sequence forEach walks (none when absent)
ccb_fields ==
    IF calculator # null /\ Has(calculator, "ccb_fields")
    THEN calculator.ccb_fields ELSE << >>

\* variant: only `!calculator` leads to the "No calculator found" view
Rendered_anyCalculator == calculator # null

\* the form is rendered (not the "No calculator found" view)
Rendered == calculator # null /\ Has(calculator, "ccb_fields")

\* f.options || []
options(f) == IF Has(f, "options") THEN f.options ELSE << >>

IsDropDown(f) == f.type = "Drop Down"

IsToggle(f) == f.type = "Toggle" \/ f.type = "Checkbox"

\* f.alias || `drop_${f._id}`
dropAlias(f) ==
    IF Has(f, "alias") /\ f.alias # "" THEN f.alias
    ELSE "drop_" \o ToString(f._id)

\* `${f.alias}:${o.optionText}`
key(f, o) ==
    (IF Has(f, "alias") THEN f.alias ELSE "undefined") \o ":" \o o.optionText

\* variant: `key in checked`
isChecked_present(chk, k) == Has(chk, k)

\* !!checked[key]
isChecked(chk, k) == Has(chk, k) /\ chk[k]

-----------------------------------------------------------------------------
(* Total                                                                   *)

\* variant: sum += v, without `|| 0`
RECURSIVE sumDropdowns_plain(_, _)
sumDropdowns_plain(dv, K) ==
    IF K = {} THEN Num(0)
    ELSE LET k == CHOOSE x \in K : TRUE
         IN  Add(dv[k], sumDropdowns_plain(dv, K \ {k}))

\* Object.values(dropdownValues).forEach((v) => (sum += v || 0))
RECURSIVE sumDropdowns(_, _)
sumDropdowns(dv, K) ==
    IF K = {} THEN Num(0)
    ELSE LET k == CHOOSE x \in K : TRUE
         IN  Add(OrZero(dv[k]), sumDropdowns(dv, K \ {k}))

\* the options loop of one Toggle/Checkbox field, from option j on
RECURSIVE sumOptions(_, _, _, _)
sumOptions(f, j, chk, sum) ==
    IF j > Len(options(f)) THEN sum
    ELSE sumOptions(f, j + 1, chk,
            IF isChecked(chk, key(f, f.options[j]))
            THEN Add(sum, toNum(f.options[j])) ELSE sum)

\* the fields loop, from field i on
RECURSIVE sumFields(_, _, _, _)
sumFields(fields, i, chk, sum) ==
    IF i > Len(fields) THEN sum
    ELSE sumFields(fields, i + 1, chk,
            IF IsToggle(fields[i]) /\ Has(fields[i], "options")
            THEN sumOptions(fields[i], 1, chk, sum) ELSE sum)

\* the running total of Calculator.tsx
totalOf(fields, dv, chk) ==
    sumFields(fields, 1, chk, sumDropdowns(dv, DOMAIN dv))

total == totalOf(ccb_fields, dropdownValues, checked)

\* the earlier page: sum += Number(o.optionValue || 0), without toNum
RECURSIVE pageSumOptions(_, _, _, _)
pageSumOptions(f, j, chk, sum) ==
    IF j > Len(options(f)) THEN sum
    ELSE pageSumOptions(f, j + 1, chk,
            IF isChecked(chk, key(f, f.options[j]))
            THEN Add(sum, NumberOrZero(f.options[j])) ELSE sum)

RECURSIVE pageSumFields(_, _, _, _)
pageSumFields(fields, i, chk, sum) ==
    IF i > Len(fields) THEN sum
    ELSE pageSumFields(fields, i + 1, chk,
            IF IsToggle(fields[i]) /\ Has(fields[i], "options")
            THEN pageSumOptions(fields[i], 1, chk, sum) ELSE sum)

pageTotalOf(fields, dv, chk) ==
    pageSumFields(fields, 1, chk, sumDropdowns(dv, DOMAIN dv))

pageTotal == pageTotalOf(ccb_fields, dropdownValues, checked)

-----------------------------------------------------------------------------
(* Line items                                                              *)

\* variant: the test is `if (label)`
RECURSIVE dropdownRows_labelOnly(_, _, _, _)
dropdownRows_labelOnly(fields, i, dv, dl) ==
    IF i > Len(fields) THEN << >>
    ELSE LET f == fields[i]
             alias == dropAlias(f)
             emit == /\ IsDropDown(f)
                     /\ Has(dv, alias)
                     /\ Has(dl, alias) /\ dl[alias] # ""
         IN  (IF emit
              THEN << [section |-> f.label, item |-> dl[alias],
                       price |-> dv[alias], field |-> i, opt |-> 0] >>
              ELSE << >>)
             \o dropdownRows_labelOnly(fields, i + 1, dv, dl)

\* variant: the test is `if (value)`
RECURSIVE dropdownRows_valueOnly(_, _, _, _)
dropdownRows_valueOnly(fields, i, dv, dl) ==
    IF i > Len(fields) THEN << >>
    ELSE LET f == fields[i]
             alias == dropAlias(f)
             emit == /\ IsDropDown(f)
                     /\ Has(dv, alias) /\ Truthy(dv[alias])
                     /\ Has(dl, alias)
         IN  (IF emit
              THEN << [section |-> f.label, item |-> dl[alias],
                       price |-> dv[alias], field |-> i, opt |-> 0] >>
              ELSE << >>)
             \o dropdownRows_valueOnly(fields, i + 1, dv, dl)

\* rows pushed by the Dropdown pass, from field i on; a row also carries
\* the position of the field (and option) it was pushed for
RECURSIVE dropdownRows(_, _, _, _)
dropdownRows(fields, i, dv, dl) ==
    IF i > Len(fields) THEN << >>
    ELSE LET f == fields[i]
             alias == dropAlias(f)
             emit == /\ IsDropDown(f)
                     /\ Has(dv, alias) /\ Truthy(dv[alias])
                     /\ Has(dl, alias) /\ dl[alias] # ""
         IN  (IF emit
              THEN << [section |-> f.label, item |-> dl[alias],
                       price |-> dv[alias], field |-> i, opt |-> 0] >>
              ELSE << >>)
             \o dropdownRows(fields, i + 1, dv, dl)

RECURSIVE optionRows(_, _, _, _)
optionRows(f, i, j, chk) ==
    IF j > Len(options(f)) THEN << >>
    ELSE (IF isChecked(chk, key(f, f.options[j]))
          THEN << [section |-> f.label, item |-> f.options[j].optionText,
                   price |-> toNum(f.options[j]), field |-> i, opt |-> j] >>
          ELSE << >>)
         \o optionRows(f, i, j + 1, chk)

RECURSIVE toggleRows(_, _, _)
toggleRows(fields, i, chk) ==
    IF i > Len(fields) THEN << >>
    ELSE (IF IsToggle(fields[i]) /\ Has(fields[i], "options")
          THEN optionRows(fields[i], i, 1, chk) ELSE << >>)
         \o toggleRows(fields, i + 1, chk)

\* variant: one pass pushes the Toggle/Checkbox rows first
buildSelectionsOf_togglesFirst(fields, dv, dl, chk) ==
    toggleRows(fields, 1, chk) \o dropdownRows(fields, 1, dv, dl)

buildSelectionsOf(fields, dv, dl, chk) ==
    dropdownRows(fields, 1, dv, dl) \o toggleRows(fields, 1, chk)

buildSelections ==
    buildSelectionsOf(ccb_fields, dropdownValues, dropdownLabels, checked)

-----------------------------------------------------------------------------
(* Events                                                                  *)

NoOutput == [alerts |-> << >>, files |-> << >>]

\* no document is being drawn
NoDoc == [page |-> 0]

Init ==
    /\ ccbRoot \in Roots
    /\ dropdownValues = EmptyRecord
    /\ dropdownLabels = EmptyRecord
    /\ checked = EmptyRecord
    /\ selectedIndex = [i \in 1..Len(ccb_fields) |-> 0]
    /\ lastSel = EmptyRecord
    /\ lastEvent = [kind |-> "mount"]
    /\ output = NoOutput
    /\ doc = NoDoc

\* e.target.value of a <select> showing entry i (0 is the "Select..." entry);
\* an <option> without a value attribute reports its text
targetValue(f, i) ==
    IF i = 0 THEN << >>
    ELSE IF Has(f.options[i], "optionValue") THEN f.options[i].optionValue
    ELSE << f.options[i].optionText, " ", "(", "$", "0", ".", "0", "0", ")" >>

\* f.options?.find((o) => String(o.optionValue) === raw)?.optionText || ""
RECURSIVE findText(_, _, _)
findText(f, raw, j) ==
    IF j > Len(options(f)) THEN ""
    ELSE IF StringOfValue(f.options[j]) = raw THEN f.options[j].optionText
    ELSE findText(f, raw, j + 1)

\* onChange of the <select> of Drop Down field i: the user picks entry j
Select(i, j) ==
    LET f == ccb_fields[i]
        alias == dropAlias(f)
        raw == targetValue(f, j)
        val == IF raw = << >> THEN Num(0) ELSE Number(raw)
        text == findText(f, raw, 1)
    IN  /\ Rendered
        /\ IsDropDown(f)
        /\ j # selectedIndex[i]
        /\ dropdownValues' = Put(dropdownValues, alias, val)
        /\ dropdownLabels' = Put(dropdownLabels, alias, text)
        /\ selectedIndex' = [selectedIndex EXCEPT ![i] = j]
        /\ lastSel' = Put(lastSel, alias, [field |-> i, opt |-> j])
        /\ lastEvent' = [kind |-> "select", field |-> i, opt |-> j]
        /\ output' = NoOutput
        /\ UNCHANGED <<ccbRoot, checked, doc>>

\* what is displayed and would be exported in the current state
Snapshot == [total |-> total, pageTotal |-> pageTotal, rows |-> buildSelections]

\* onChange of the checkbox of option j of Toggle/Checkbox field i; the
\* history notes what was displayed before the box was ticked, and hands
\* it on when the very next event unticks the same box
Toggle(i, j) ==
    LET f == ccb_fields[i]
        k == key(f, f.options[j])
        on == ~isChecked(checked, k)
        event == [kind |-> "toggle", field |-> i, opt |-> j, on |-> on]
        follows == /\ Has(lastEvent, "before")
                   /\ lastEvent.field = i /\ lastEvent.opt = j
    IN  /\ Rendered
        /\ IsToggle(f)
        /\ checked' = Put(checked, k, on)
        /\ lastEvent' =
             IF on THEN [x \in DOMAIN event \cup {"before"} |->
                           IF x = "before" THEN Snapshot ELSE event[x]]
             ELSE IF follows
                  THEN [x \in DOMAIN event \cup {"undoes"} |->
                          IF x = "undoes" THEN lastEvent.before ELSE event[x]]
                  ELSE event
        /\ output' = NoOutput
        /\ UNCHANGED <<ccbRoot, dropdownValues, dropdownLabels,
                       selectedIndex, lastSel, doc>>

\* variant: the guard tests v >= 0
somePositive_orZero(dv) == \E k \in DOMAIN dv : ~dv[k].nan /\ dv[k].n >= 0

\* Object.values(dropdownValues).some((v) => v > 0)
somePositive(dv) == \E k \in DOMAIN dv : Positive(dv[k])

\* variant: the guard looks at the rows only
somethingSelected_rowsOnly(rows, dv) == Len(rows) > 0

somethingSelected(rows, dv) == Len(rows) > 0 \/ somePositive(dv)

-----------------------------------------------------------------------------
(* Drawing the PDF (US Letter, lengths in points)                          *)

pageHeight == 792

margin == 48

lineHeight == 18

\* font size of the table
fontSize == 12

\* pitch of the lines of a multi-line text, in percent of the font size
lineHeightFactor == 115

\* doc.text(..., y) of an element of `lines` lines: the element is noted
\* with its page, its baseline and (times 100) the baseline of its last line
Draw(d, what, lines) ==
    [d EXCEPT !.pageStart = IF d.pageStart = "none" THEN what ELSE @,
              !.drawn = Append(@, [what |-> what, page |-> d.page, y |-> d.y,
                                   bottom |-> 100 * d.y
                                     + (lines - 1) * fontSize * lineHeightFactor])]

Advance(d, dy) == [d EXCEPT !.y = @ + dy]

\* new jsPDF, title and date at the top margin
drawTitle ==
    Advance(Draw([page |-> 1, y |-> margin, rows |-> 0, pageStart |-> "none",
                  drawn |-> << >>, saved |-> FALSE], "title", 1), 24)

\* "Section / Item / Price", the rule under it, and the gap to the first row
tableHeader(d) == Advance(Draw(Advance(Draw(d, "header", 1), 12), "rule", 1), 16)

\* doc.addPage(); y = margin; the table header again
addPage(d) ==
    tableHeader([d EXCEPT !.page = @ + 1, !.y = margin, !.pageStart = "none"])

Max(a, b) == IF a > b THEN a ELSE b

\* one turn of rows.forEach for a row whose item is wrapped into n lines
drawRow(d, n) ==
    LET c  == [d EXCEPT !.drawn = << >>]
        d1 == IF c.y > pageHeight - margin - 100 THEN addPage(c) ELSE c
    IN  [Advance(Draw(d1, "row", n), lineHeight * Max(1, n))
           EXCEPT !.rows = @ + 1]

\* divider, total and closing note; then doc.save
drawFooter(d) ==
    LET c == [d EXCEPT !.drawn = << >>]
        r == Draw(Advance(c, 8), "rule", 1)
        t == Draw(Advance(r, 20), "total", 1)
        n == Draw(Advance(t, 28), "note", 1)
    IN  [n EXCEPT !.saved = TRUE]

\* doc.splitTextToSize(r.item, itemMaxWidth): the texts of FieldPool are
\* shorter than the item column, so each stays one line
splitTextToSize(text) == << text >>

\* the whole drawing of handleDownloadPdf for its rows
RECURSIVE drawRows(_, _, _)
drawRows(d, rows, n) ==
    IF n > Len(rows) THEN d
    ELSE drawRows(drawRow(d, Len(splitTextToSize(rows[n].item))), rows, n + 1)

drawAll(rows) == drawFooter(drawRows(tableHeader(drawTitle), rows, 1))

\* the printed part of a row
Printed(r) == [section |-> r.section, item |-> r.item, price |-> r.price]

\* the document handed to doc.save
Document(rows, sum) ==
    [title |-> calculator.ccb_name,
     rows |-> [n \in 1..Len(rows) |-> Printed(rows[n])],
     total |-> sum,
     layout |-> drawAll(rows)]

\* variant: the form is cleared once the file is saved
handleDownloadPdf_reset ==
    LET rows == buildSelections
        ok == somethingSelected(rows, dropdownValues)
    IN  /\ Rendered
        /\ output' =
             IF ~ok
             THEN [alerts |-> << "Please make some selections before submitting." >>,
                   files |-> << >>]
             ELSE [alerts |-> << >>, files |-> << Document(rows, total) >>]
        /\ lastEvent' = [kind |-> "export"]
        /\ dropdownValues' = IF ok THEN EmptyRecord ELSE dropdownValues
        /\ dropdownLabels' = IF ok THEN EmptyRecord ELSE dropdownLabels
        /\ checked' = IF ok THEN EmptyRecord ELSE checked
        /\ UNCHANGED <<ccbRoot, selectedIndex, lastSel, doc>>

\* onClick of "Submit & Download PDF"
handleDownloadPdf ==
    LET rows == buildSelections
    IN  /\ Rendered
        /\ output' =
             IF ~somethingSelected(rows, dropdownValues)
             THEN [alerts |-> << "Please make some selections before submitting." >>,
                   files |-> << >>]
             ELSE [alerts |-> << >>, files |-> << Document(rows, total) >>]
        /\ lastEvent' = [kind |-> "export"]
        /\ UNCHANGED <<ccbRoot, dropdownValues, dropdownLabels, checked,
                       selectedIndex, lastSel, doc>>

Next ==
    \/ \E i \in 1..Len(ccb_fields) :
         \E j \in 0..Len(options(ccb_fields[i])) : Select(i, j)
    \/ \E i \in 1..Len(ccb_fields) :
         \E j \in 1..Len(options(ccb_fields[i])) : Toggle(i, j)
    \/ handleDownloadPdf

Spec == Init /\ [][Next]_vars

-----------------------------------------------------------------------------
(* The drawing loop on its own, for rows of any number of wrapped lines    *)

MaxRows == 5

MaxLines == 9

LayoutInit ==
    /\ ccbRoot = [calculators |-> << [ccb_name |-> "Quote", ccb_fields |-> << >>] >>]
    /\ dropdownValues = EmptyRecord
    /\ dropdownLabels = EmptyRecord
    /\ checked = EmptyRecord
    /\ selectedIndex = << >>
    /\ lastSel = EmptyRecord
    /\ lastEvent = [kind |-> "export"]
    /\ output = NoOutput
    /\ doc = tableHeader(drawTitle)

\* the next row of rows.forEach, its item wrapped into n lines
DrawRow(n) ==
    /\ ~doc.saved
    /\ doc.rows < MaxRows
    /\ doc' = drawRow(doc, n)
    /\ UNCHANGED <<ccbRoot, dropdownValues, dropdownLabels, checked,
                   selectedIndex, lastSel, lastEvent, output>>

\* the rows are exhausted
DrawFooter ==
    /\ ~doc.saved
    /\ doc' = drawFooter(doc)
    /\ UNCHANGED <<ccbRoot, dropdownValues, dropdownLabels, checked,
                   selectedIndex, lastSel, lastEvent, output>>

LayoutNext ==
    \/ \E n \in 1..MaxLines : DrawRow(n)
    \/ DrawFooter

LayoutSpec == LayoutInit /\ [][LayoutNext]_vars

-----------------------------------------------------------------------------
(* Vocabulary of the properties                                            *)

DropDownFields == { i \in 1..Len(ccb_fields) : IsDropDown(ccb_fields[i]) }

ToggleFields == { i \in 1..Len(ccb_fields) : IsToggle(ccb_fields[i]) }

\* the (field, option) pairs of the Toggle/Checkbox fields
TogglePairs ==
    UNION { { <<i, j>> : j \in 1..Len(options(ccb_fields[i])) } : i \in ToggleFields }

optionOf(p) == ccb_fields[p[1]].options[p[2]]

\* the flag of a (field, option) pair in a checked record
flagIn(chk, p) == isChecked(chk, key(ccb_fields[p[1]], optionOf(p)))

FlaggedPairs == { p \in TogglePairs : flagIn(checked, p) }

\* the amount stored for Drop Down field i, 0 when nothing is stored
selectedAmount(i) ==
    LET alias == dropAlias(ccb_fields[i])
    IN  IF Has(dropdownValues, alias) THEN OrZero(dropdownValues[alias]) ELSE Num(0)

\* the label stored for Drop Down field i, "" when nothing is stored
selectedLabel(i) ==
    LET alias == dropAlias(ccb_fields[i])
    IN  IF Has(dropdownLabels, alias) THEN dropdownLabels[alias] ELSE ""

RECURSIVE SumSet(_, _)
SumSet(S, g) ==
    IF S = {} THEN Num(0)
    ELSE LET x == CHOOSE y \in S : TRUE
         IN  Add(g[x], SumSet(S \ {x}, g))

\* sum of the fields' selected amounts plus sum of the flagged amounts
SumOfSelections ==
    Add(SumSet(DropDownFields, [i \in DropDownFields |-> selectedAmount(i)]),
        SumSet(FlaggedPairs, [p \in FlaggedPairs |-> toNum(optionOf(p))]))

\* the schema's fields in every order
Reorderings ==
    { [i \in 1..Len(ccb_fields) |-> ccb_fields[p[i]]] :
        p \in Permutations(1..Len(ccb_fields)) }

Exported == lastEvent.kind = "export" /\ Len(output.files) = 1

Rejected == lastEvent.kind = "export" /\ Len(output.alerts) > 0

-----------------------------------------------------------------------------
(* C1: after any sequence of select and toggle events the running total    *)
(* (of the component and of the earlier page) is the sum over the Drop     *)
(* Down fields of the field's selected amount plus the sum of toNum over   *)
(* the flagged Toggle/Checkbox options, and it is the same for every       *)
(* order of the schema's fields.                                           *)
C1_TotalIsSumOfSelections ==
    Rendered =>
        /\ total = SumOfSelections
        /\ pageTotal = SumOfSelections
        /\ \A s \in Reorderings :
             /\ totalOf(s, dropdownValues, checked) = total
             /\ pageTotalOf(s, dropdownValues, checked) = pageTotal

\* no Drop Down field has a stored amount > 0
NoPositiveDropdown ==
    \A i \in DropDownFields :
        LET alias == dropAlias(ccb_fields[i])
        IN  ~(Has(dropdownValues, alias) /\ Positive(dropdownValues[alias]))

(* C2: an export attempt is rejected (notice shown, nothing saved) when    *)
(* the line-item sequence is empty and no Drop Down has a positive         *)
(* selected value, and otherwise saves exactly one file without a notice.  *)
C2_ExportOutcome ==
    [][lastEvent'.kind = "export" =>
         IF buildSelections = << >> /\ NoPositiveDropdown
         THEN Len(output'.alerts) = 1 /\ Len(output'.files) = 0
         ELSE Len(output'.alerts) = 0 /\ Len(output'.files) = 1]_vars

\* an export that saved a file with a positive Drop Down and no flag set
C2_Witness ==
    /\ Exported
    /\ ~NoPositiveDropdown
    /\ FlaggedPairs = {}

\* no selection with a positive amount is active
NoPositiveSelection ==
    /\ NoPositiveDropdown
    /\ \A p \in FlaggedPairs : ~Positive(toNum(optionOf(p)))

(* C3 as stated: an export invoked while no active selection has a         *)
(* positive amount shows the notice and saves nothing.                     *)
C3_RejectedWithoutPositiveSelection ==
    [][(lastEvent'.kind = "export" /\ NoPositiveSelection) =>
         (Len(output'.alerts) = 1 /\ Len(output'.files) = 0)]_vars

\* nothing is selected: no flag is set and no Drop Down has a stored
\* amount that is positive or that is negative with a non-empty label
NothingSelected ==
    /\ NoPositiveDropdown
    /\ FlaggedPairs = {}
    /\ \A i \in DropDownFields :
         ~(selectedAmount(i).n < 0 /\ selectedLabel(i) # "")

(* C3 amended: an export invoked while no Drop Down has a positive         *)
(* amount, no Drop Down has a negative amount with a non-empty label and   *)
(* no Toggle/Checkbox flag is set shows the notice and saves nothing.      *)
C3_RejectedWhenNothingSelected ==
    [][(lastEvent'.kind = "export" /\ NothingSelected) =>
         (Len(output'.alerts) = 1 /\ Len(output'.files) = 0)]_vars

\* a rejected export although a Drop Down holds a zero-priced option
C3_Witness ==
    /\ Rejected
    /\ output.files = << >>
    /\ \E i \in DropDownFields : selectedLabel(i) # "" /\ selectedAmount(i) = Num(0)

(* C4 as stated: line items of different fields are in schema field order  *)
(* whatever the variants of the fields, and items of one field are in the  *)
(* declared order of its options.                                          *)
C4_SchemaFieldOrder ==
    LET rows == buildSelections
    IN  \A a, b \in 1..Len(rows) :
          a < b =>
            /\ rows[a].field # rows[b].field => rows[a].field < rows[b].field
            /\ rows[a].field = rows[b].field => rows[a].opt < rows[b].opt

(* C4 amended: the Drop Down items come first, in schema field order, and  *)
(* the Toggle/Checkbox items follow, in schema field order and within one  *)
(* field in the declared order of its options.                             *)
C4_DropdownsThenTogglesInOrder ==
    LET rows == buildSelections
        isDD(r) == IsDropDown(ccb_fields[r.field])
    IN  \A a, b \in 1..Len(rows) :
          a < b =>
            /\ ~(isDD(rows[b]) /\ ~isDD(rows[a]))
            /\ isDD(rows[a]) = isDD(rows[b]) =>
                 \/ rows[a].field < rows[b].field
                 \/ rows[a].field = rows[b].field /\ rows[a].opt < rows[b].opt

\* a Drop Down item of a later field printed before a Toggle/Checkbox item
\* of an earlier field, and two items of one field
C4_Witness ==
    LET rows == buildSelections
    IN  /\ \E a, b \in 1..Len(rows) :
             a < b /\ rows[a].field > rows[b].field
        /\ \E a, b \in 1..Len(rows) :
             a < b /\ rows[a].field = rows[b].field

(* C5: a toggle event changes the flag of its own (field, option) pair     *)
(* only: every other pair's flag and all Drop Down values and labels are   *)
(* unchanged.                                                              *)
C5_ToggleFrame ==
    [][lastEvent'.kind = "toggle" =>
         /\ \A p \in TogglePairs :
              p # <<lastEvent'.field, lastEvent'.opt>> =>
                flagIn(checked', p) = flagIn(checked, p)
         /\ dropdownValues' = dropdownValues
         /\ dropdownLabels' = dropdownLabels]_vars

(* C6: for every Drop Down alias the stored value and label come from the  *)
(* most recent selection made on that alias: the value is the amount of    *)
(* the option the user chose (0 for the blank entry) and the label is      *)
(* that same option's optionText ("" only when no option matches).         *)
C6_ValueAndLabelOfLatestSelection ==
    \A alias \in DOMAIN lastSel :
        LET f == ccb_fields[lastSel[alias].field]
            j == lastSel[alias].opt
        IN  /\ Has(dropdownValues, alias) /\ Has(dropdownLabels, alias)
            /\ j = 0 => OrZero(dropdownValues[alias]) = Num(0)
            /\ j > 0 =>
                 /\ OrZero(dropdownValues[alias]) = toNum(f.options[j])
                 /\ dropdownLabels[alias] =
                      IF \E k \in 1..Len(f.options) :
                           StringOfValue(f.options[k]) = targetValue(f, j)
                      THEN f.options[j].optionText ELSE ""

\* what the alias of the field of a select event contributes to the total
contribution(dv, alias) == IF Has(dv, alias) THEN OrZero(dv[alias]) ELSE Num(0)

(* C7: a select event replaces the contribution of its alias to the total: *)
(* with p the alias's contribution before and q the amount of the chosen   *)
(* option (0 for the blank entry), the total after is the total before     *)
(* minus p plus q.                                                         *)
C7_SelectReplacesContribution ==
    [][lastEvent'.kind = "select" =>
         LET f == ccb_fields[lastEvent'.field]
             j == lastEvent'.opt
             p == contribution(dropdownValues, dropAlias(f))
             q == IF j = 0 THEN Num(0) ELSE toNum(f.options[j])
             delta == Num(q.n - p.n)
         IN  /\ totalOf(ccb_fields, dropdownValues', checked') = Add(total, delta)
             /\ pageTotalOf(ccb_fields, dropdownValues', checked')
                  = Add(pageTotal, delta)]_vars

\* the blank entry was chosen again on a field that had a selection, and
\* another alias still contributes to the total
C7_Witness ==
    /\ lastEvent.kind = "select"
    /\ lastEvent.opt = 0
    /\ Truthy(total)

(* C8: the line items contain no Drop Down item for a Drop Down field      *)
(* whose selected amount is exactly zero, also when a label is stored.     *)
C8_NoDropdownItemForZero ==
    LET rows == buildSelections
    IN  \A i \in DropDownFields :
          LET alias == dropAlias(ccb_fields[i])
          IN  (Has(dropdownValues, alias) /\ dropdownValues[alias] = Num(0)) =>
                ~\E n \in 1..Len(rows) : rows[n].field = i

\* a Drop Down holds amount 0 together with a non-empty label
C8_Witness ==
    \E i \in DropDownFields :
        LET alias == dropAlias(ccb_fields[i])
        IN  /\ Has(dropdownValues, alias) /\ dropdownValues[alias] = Num(0)
            /\ selectedLabel(i) # ""

\* the option's amount does not parse as a number, or is absent
Unparsable(o) == ~Has(o, "optionValue") \/ Number(o.optionValue).nan

(* C9: an option whose optionValue does not parse counts as 0: both        *)
(* totals stay numbers equal to the sum of the other selections, and a     *)
(* line item emitted for it has price 0.                                   *)
C9_UnparsableCountsAsZero ==
    LET rows == buildSelections
        parsed == { p \in FlaggedPairs : ~Unparsable(optionOf(p)) }
        others == Add(sumDropdowns(dropdownValues, DOMAIN dropdownValues),
                      SumSet(parsed, [p \in parsed |-> toNum(optionOf(p))]))
    IN  Rendered =>
          /\ ~total.nan /\ total = others
          /\ ~pageTotal.nan /\ pageTotal = others
          /\ \A n \in 1..Len(rows) :
               (rows[n].opt > 0 /\ Unparsable(optionOf(<<rows[n].field, rows[n].opt>>)))
                 => rows[n].price = Num(0)

\* the Drop Down fields that have a non-zero value and a non-empty label
DropdownsToEmit ==
    { i \in DropDownFields : Truthy(selectedAmount(i)) /\ selectedLabel(i) # "" }

(* C10: the line items are exactly one item {field label, selected label,  *)
(* selected value} per Drop Down field with a non-zero value and a         *)
(* non-empty label, and one item {field label, optionText, toNum of the    *)
(* optionValue} per Toggle/Checkbox (field, option) pair whose flag is     *)
(* set; nothing else and nothing twice.                                    *)
C10_ExactLineItems ==
    LET rows == buildSelections
        src(n) == <<rows[n].field, rows[n].opt>>
    IN  /\ { src(n) : n \in 1..Len(rows) }
             = { <<i, 0>> : i \in DropdownsToEmit } \cup FlaggedPairs
        /\ \A a, b \in 1..Len(rows) : src(a) = src(b) => a = b
        /\ \A n \in 1..Len(rows) :
             LET f == ccb_fields[rows[n].field]
             IN  /\ rows[n].section = f.label
                 /\ rows[n].opt = 0 =>
                      /\ rows[n].item = selectedLabel(rows[n].field)
                      /\ rows[n].price = selectedAmount(rows[n].field)
                 /\ rows[n].opt > 0 =>
                      /\ rows[n].item = f.options[rows[n].opt].optionText
                      /\ rows[n].price = toNum(f.options[rows[n].opt])

\* a Drop Down item and a flagged item are emitted while another Drop
\* Down selection (zero value or empty label) and an unset flag are not
C10_Witness ==
    /\ DropdownsToEmit # {}
    /\ FlaggedPairs # {}
    /\ \E p \in TogglePairs : ~flagIn(checked, p)

(* C11: ticking a Toggle/Checkbox option and unticking it with the very    *)
(* next event returns both totals and the line-item sequence to what they  *)
(* were before the two events.                                             *)
C11_ToggleOnOffRestores ==
    Has(lastEvent, "undoes") =>
        /\ total = lastEvent.undoes.total
        /\ pageTotal = lastEvent.undoes.pageTotal
        /\ buildSelections = lastEvent.undoes.rows

\* an option with a non-zero amount was ticked and unticked while another
\* selection contributes to the total
C11_Witness ==
    /\ Has(lastEvent, "undoes")
    /\ Truthy(toNum(optionOf(<<lastEvent.field, lastEvent.opt>>)))
    /\ Truthy(total)

(* C12: when the configuration has no calculators, or its first calculator *)
(* has no ccb_fields, the session stays in the "no calculator" view: no    *)
(* select, toggle or export event is enabled, the selection state is       *)
(* empty and no notice or file has been produced.                          *)
C12_DegradedForever ==
    (calculator = null \/ ~Has(calculator, "ccb_fields")) =>
        /\ ~ENABLED Next
        /\ lastEvent.kind = "mount"
        /\ dropdownValues = EmptyRecord
        /\ dropdownLabels = EmptyRecord
        /\ checked = EmptyRecord
        /\ output = NoOutput

\* a calculator is configured but has no ccb_fields
C12_Witness == calculator # null /\ ~Has(calculator, "ccb_fields")

(* C13: at the start the selection state is empty, both totals are 0 and   *)
(* there is no line item; an export event, rejected or not, leaves the     *)
(* values, labels, flags and totals as they were.                          *)
C13_EmptyStartAndExportFrame ==
    /\ [](lastEvent.kind = "mount" =>
            /\ dropdownValues = EmptyRecord
            /\ dropdownLabels = EmptyRecord
            /\ checked = EmptyRecord
            /\ total = Num(0) /\ pageTotal = Num(0)
            /\ buildSelections = << >>)
    /\ [][lastEvent'.kind = "export" =>
            /\ dropdownValues' = dropdownValues
            /\ dropdownLabels' = dropdownLabels
            /\ checked' = checked
            /\ totalOf(ccb_fields, dropdownValues', checked') = total
            /\ pageTotalOf(ccb_fields, dropdownValues', checked') = pageTotal]_vars

\* a file was saved while a Drop Down value and a flag are still stored
C13_Witness ==
    /\ Exported
    /\ \E i \in DropDownFields : Truthy(selectedAmount(i))
    /\ FlaggedPairs # {}

RECURSIVE SumPrices(_)
SumPrices(rows) ==
    IF rows = << >> THEN Num(0)
    ELSE Add(rows[1].price, SumPrices(Tail(rows)))

(* C14: in every saved document the total printed in the footer is the sum *)
(* of the prices of the line items printed in the table.                   *)
C14_FooterIsSumOfRows ==
    Exported => output.files[1].total = SumPrices(output.files[1].rows)

\* what is stored in a record under a key: <<v>>, or << >> for nothing
storedUnder(s, k) == IF Has(s, k) THEN << s[k] >> ELSE << >>

(* C15: a select event on one Drop Down field leaves the value and label   *)
(* stored for every other Drop Down field, and every flag, unchanged.      *)
C15_SelectFrame ==
    [][lastEvent'.kind = "select" =>
         /\ \A g \in DropDownFields \ {lastEvent'.field} :
              LET alias == dropAlias(ccb_fields[g])
              IN  /\ storedUnder(dropdownValues', alias)
                       = storedUnder(dropdownValues, alias)
                  /\ storedUnder(dropdownLabels', alias)
                       = storedUnder(dropdownLabels, alias)
         /\ checked' = checked]_vars

\* the lowest baseline allowed on a page
bottomMargin == pageHeight - margin

(* C16: nothing is drawn below the bottom margin: every row with all its   *)
(* wrapped lines, the total and the closing note lie at or above           *)
(* pageHeight - margin, and every page after the first starts with the     *)
(* table header.                                                           *)
C16_NothingBelowBottomMargin ==
    /\ \A k \in 1..Len(doc.drawn) :
         doc.drawn[k].what \in {"row", "total", "note"} =>
           /\ doc.drawn[k].y <= bottomMargin
           /\ doc.drawn[k].bottom <= 100 * bottomMargin
    /\ doc.page > 1 => doc.pageStart = "header"

====
